---- MODULE Spec2Model ----
(***************************************************************************)
(* Model of indico's room-booking serialization schemas                    *)
(* (indico/modules/rb/schemas.py) and of the event reminder form           *)
(* (indico/modules/events/reminders/forms.py).                             *)
(*                                                                         *)
(* Conventions                                                             *)
(*  - A Python dict is a function whose domain is its set of keys.         *)
(*  - A Python value that may be None is a set with at most one element:   *)
(*    None is {} and a present value x is Some(x) = {x}.                   *)
(*  - A datetime is an integer number of hours since an epoch that is a    *)
(*    Monday 00:00; a timedelta is an integer number of hours; a date is   *)
(*    an integer number of days since the epoch day.                       *)
(***************************************************************************)
EXTENDS Integers, Sequences, FiniteSets, TLC

VARIABLES
    booking,    \* the stored Reservation record handed to the booking schemas
    call,       \* the last operation and the inputs it read
    raw,        \* what the fields serialized, before any post_dump hook
    out,        \* what the operation returned
    form        \* the ReminderForm instance

vars == <<booking, call, raw, out, form>>

---------------------------------------------------------------------------
(* Bounds of the model *)

MaxDay == 6         \* bookings start on day 0..MaxDay
MaxWeekdays == 1    \* stored recurrence_weekdays lists have at most this length
MaxLen == 3         \* lists dumped with many=True have at most this many items
MaxStamp == 1       \* timestamps and dates of the dumped items are 0..MaxStamp
MaxCount == 2       \* an event has 0..MaxCount registration forms and tags
MaxFormDay == 1     \* the reminder form's datetimes fall on days 0..MaxFormDay
MaxSubmitted == 3     \* a submitted recurrence_weekdays list has at most this many items

---------------------------------------------------------------------------
(* Python values *)

None == {}
Some(x) == {x}
TheValue(o) == CHOOSE x \in o : TRUE

Range(s) == {s[i] : i \in 1..Len(s)}

SeqsUpTo(S, n) == UNION {[1..k -> S] : k \in 0..n}

\* dict[k] = v
SetItem(d, k, v) == [x \in (DOMAIN d) \cup {k} |-> IF x = k THEN v ELSE d[x]]

\* del dict[k]
DelItem(d, k) == [x \in (DOMAIN d) \ {k} |-> d[x]]

\* dict[new] = dict.pop(old)
PopInto(d, old, new) == SetItem(DelItem(d, old), new, d[old])

\* datetime.weekday(): Monday is 0
weekday(dt) == (dt \div 24) % 7

\* indico.modules.rb.util.WEEKDAYS
WEEKDAYS == <<"mon", "tue", "wed", "thu", "fri", "sat", "sun">>

---------------------------------------------------------------------------
(* Domain records read by the schemas *)

Users == {"alice"}
OptUsers == {None} \cup {Some(u) : u \in Users}

RepeatFrequency == {"NEVER", "DAY", "WEEK", "MONTH"}

StoredWeekdays == {None} \cup {Some(l) : l \in SeqsUpTo({"mon", "fri"}, MaxWeekdays)}

EditLogs == <<[id |-> 1, timestamp |-> 3, info |-> "created", user_name |-> "Alice"],
              [id |-> 2, timestamp |-> 5, info |-> "edited", user_name |-> "Bob"]>>

Bookings ==
    [id : {1},
     room_id : {10},
     booking_reason : {"seminar"},
     booked_for_name : {Some("Alice")},
     booked_for_user : {Some([id |-> 7, full_name |-> "Alice"])},
     created_by_user : {Some([id |-> 8, full_name |-> "Bob"])},
     contact_email : {Some("alice@example.org")},
     edit_logs : {EditLogs},
     start_dt : {d * 24 + 9 : d \in 0..MaxDay},
     repeat_frequency : RepeatFrequency,
     repeat_interval : {1},
     recurrence_weekdays : StoredWeekdays,
     is_accepted : BOOLEAN,
     is_cancelled : {FALSE},
     is_rejected : {FALSE},
     external_details_url : {"https://indico/rooms/booking/1"},
     internal_note : {"vip"},
     location_name : {"CERN"}]

\* Reservation.repetition
repetition(b) == <<b.repeat_frequency, b.repeat_interval, b.recurrence_weekdays>>

\* Attribute access of a field on the booking
Attr(b, k) ==
    CASE k = "repetition" -> repetition(b)
      [] k = "end_dt" -> b.start_dt + 1
      [] k = "is_repeating" -> b.repeat_frequency # "NEVER"
      [] OTHER -> b[k]

---------------------------------------------------------------------------
(* The request environment read by the schemas *)

\* flask.session: no request context, an empty session (falsy), or a session
\* with data whose user may still be None
Sessions ==
    {[state |-> "unbound", user |-> None], [state |-> "empty", user |-> None]}
        \cup {[state |-> "active", user |-> u] : u \in OptUsers}

BoundSessions == {s \in Sessions : s.state # "unbound"}

\* "session.user if session else None"
SessionUserOrNone(c) == IF c.session.state = "active" THEN c.session.user ELSE None

\* "session.user"; needs a request context
SessionUser(c) == c.session.user

\* booking.can_see_details(user), booking.room.can_manage(user), rb_is_admin(user):
\* answers of the domain layer, given by the environment of the call as the set
\* of users (None included) the answer is true for.  can_manage and rb_is_admin
\* are only ever asked about the session's user, and their sets say nothing
\* about anyone else.
can_see_details(c, user) == user \in c.can_see
can_manage(c, user) == user \in c.can_manage
rb_is_admin(c, user) == user \in c.admins

\* The answers of the can_* methods: perms[m, allow_admin]
GrantSets(methods) == {{}, {methods[1]}, Range(methods)}
PermTables(methods) ==
    {[m \in Range(methods), a \in BOOLEAN |-> IF a THEN m \in A ELSE m \in U] :
        U \in GrantSets(methods), A \in GrantSets(methods)}

\* Fields serialized straight from attributes
FieldDump(b, keys) == [k \in keys |-> Attr(b, k)]

---------------------------------------------------------------------------
(* sorted(data, key=..., reverse=...): Python's stable sort.  A sort key is a
   sequence of integers compared as Python compares lists and tuples. *)

RECURSIVE LexLess(_, _)
LexLess(a, b) ==
    IF a = <<>> THEN b # <<>>
    ELSE IF b = <<>> THEN FALSE
    ELSE IF Head(a) # Head(b) THEN Head(a) < Head(b)
    ELSE LexLess(Tail(a), Tail(b))

\* x, an earlier item of the input, goes before e
GoesBefore(kx, ke, reverse) == IF reverse THEN ~LexLess(kx, ke) ELSE ~LexLess(ke, kx)

RECURSIVE InsertSorted(_, _, _)
InsertSorted(p, ps, reverse) ==
    IF ps = <<>> THEN <<p>>
    ELSE IF GoesBefore(p[1], Head(ps)[1], reverse) THEN <<p>> \o ps
    ELSE <<Head(ps)>> \o InsertSorted(p, Tail(ps), reverse)

RECURSIVE SortPairs(_, _)
SortPairs(ps, reverse) ==
    IF ps = <<>> THEN <<>>
    ELSE InsertSorted(Head(ps), SortPairs(Tail(ps), reverse), reverse)

\* keys[i] is key(data[i])
sorted(data, keys, reverse) ==
    LET ps == SortPairs([i \in 1..Len(data) |-> <<keys[i], data[i]>>], reverse)
    IN  [i \in 1..Len(data) |-> ps[i][2]]

---------------------------------------------------------------------------
(* ReservationEditLogSchema *)

\* Mutant: reverse=True is dropped
Mutant_sort_logs_ascending(data, many) ==
    IF many
    THEN sorted(data, [i \in 1..Len(data) |-> <<data[i]["timestamp"]>>], FALSE)
    ELSE data

sort_logs(data, many) ==
    IF many
    THEN sorted(data, [i \in 1..Len(data) |-> <<data[i]["timestamp"]>>], TRUE)
    ELSE data

---------------------------------------------------------------------------
(* ReservationSchema *)

ReservationFields ==
    {"id", "booking_reason", "booked_for_name", "room_id", "is_accepted", "start_dt",
     "end_dt", "is_repeating", "repeat_frequency", "repeat_interval",
     "recurrence_weekdays"}

ReservationSchema_hide_sensitive_data(data, b, c) ==
    IF ~can_see_details(c, SessionUserOrNone(c))
    THEN SetItem(data, "booked_for_name", None)
    ELSE data

\* Mutant: the hook forgets to test that no weekdays are stored
Mutant_add_missing_weekdays_always(data, b) ==
    IF b.repeat_frequency = "WEEK"
    THEN SetItem(data, "recurrence_weekdays", Some(<<WEEKDAYS[weekday(b.start_dt) + 1]>>))
    ELSE data

ReservationSchema_add_missing_weekdays(data, b) ==
    IF b.repeat_frequency = "WEEK" /\ b.recurrence_weekdays = None
    THEN SetItem(data, "recurrence_weekdays", Some(<<WEEKDAYS[weekday(b.start_dt) + 1]>>))
    ELSE data

\* marshmallow runs the post_dump hooks of a schema in the order of dir(cls)
ReservationSchema_dump(b, c) ==
    ReservationSchema_hide_sensitive_data(
        ReservationSchema_add_missing_weekdays(FieldDump(b, ReservationFields), b), b, c)

---------------------------------------------------------------------------
(* ReservationDetailsSchema *)

ReservationDetailsFields ==
    {"id", "start_dt", "end_dt", "repetition", "booking_reason", "created_dt",
     "booked_for_user", "room_id", "created_by_user", "edit_logs", "permissions",
     "is_cancelled", "is_rejected", "is_accepted", "is_pending", "rejection_reason",
     "is_linked_to_objects", "state", "external_details_url", "internal_note",
     "recurrence_weekdays"}

ReservationDetailsMethods == <<"can_accept", "can_cancel", "can_delete", "can_edit", "can_reject">>

ReservationDetailsSchema_get_permissions(c) ==
    LET methods == ReservationDetailsMethods
        user_permissions == [x \in Range(methods) |-> c.perms[x, FALSE]]
        admin_permissions ==
            IF rb_is_admin(c, SessionUser(c))
            THEN Some([x \in Range(methods) |-> c.perms[x, TRUE]])
            ELSE None
    IN  [user |-> user_permissions, admin |-> admin_permissions]

ReservationDetailsSchema_fields(b, c) ==
    [k \in ReservationDetailsFields |->
        CASE k = "permissions" -> ReservationDetailsSchema_get_permissions(c)
          [] k = "edit_logs" -> Some(sort_logs(b.edit_logs, TRUE))
          [] k \in {"created_dt", "is_pending", "rejection_reason",
                    "is_linked_to_objects", "state"} -> "unmodelled"
          [] OTHER -> Attr(b, k)]

\* Mutant: the internal note is blanked, its key stays
Mutant_details_hide_blanks_internal_note(data, b, c) ==
    LET user == SessionUserOrNone(c)
        data1 == IF ~can_manage(c, user) THEN SetItem(data, "internal_note", None) ELSE data
    IN  IF ~can_see_details(c, user)
        THEN SetItem(SetItem(SetItem(data1, "booked_for_user", None),
                             "created_by_user", None), "edit_logs", None)
        ELSE data1

ReservationDetailsSchema_hide_sensitive_data(data, b, c) ==
    LET user == SessionUserOrNone(c)
        data1 == IF ~can_manage(c, user) THEN DelItem(data, "internal_note") ELSE data
    IN  IF ~can_see_details(c, user)
        THEN SetItem(SetItem(SetItem(data1, "booked_for_user", None),
                             "created_by_user", None), "edit_logs", None)
        ELSE data1

\* Mutant: the hook backfills recurrence_weekdays and leaves repetition alone
Mutant_details_weekdays_only(data, b) ==
    IF b.repeat_frequency = "WEEK" /\ b.recurrence_weekdays = None
    THEN SetItem(data, "recurrence_weekdays", Some(<<WEEKDAYS[weekday(b.start_dt) + 1]>>))
    ELSE data

ReservationDetailsSchema_add_missing_weekdays(data, b) ==
    IF b.repeat_frequency = "WEEK" /\ b.recurrence_weekdays = None
    THEN LET weekdays == Some(<<WEEKDAYS[weekday(b.start_dt) + 1]>>)
         IN  SetItem(SetItem(data, "recurrence_weekdays", weekdays),
                     "repetition", SubSeq(data["repetition"], 1, 2) \o <<weekdays>>)
    ELSE data

ReservationDetailsSchema_dump(b, c) ==
    ReservationDetailsSchema_hide_sensitive_data(
        ReservationDetailsSchema_add_missing_weekdays(ReservationDetailsSchema_fields(b, c), b),
        b, c)

---------------------------------------------------------------------------
(* ReservationOccurrenceSchemaWithPermissions *)

ReservationOccurrenceFields ==
    {"start_dt", "end_dt", "is_valid", "reservation", "rejection_reason", "state",
     "link_id", "permissions"}

ReservationOccurrenceMethods == <<"can_cancel", "can_reject">>

\* Mutant: the admin permissions are computed for everyone
Mutant_get_permissions_admin_for_all(c) ==
    LET methods == <<"can_cancel", "can_reject">>
    IN  [user |-> [x \in Range(methods) |-> c.perms[x, FALSE]],
         admin |-> Some([x \in Range(methods) |-> c.perms[x, TRUE]])]

ReservationOccurrenceSchemaWithPermissions_get_permissions(c) ==
    LET methods == ReservationOccurrenceMethods
        user_permissions == [x \in Range(methods) |-> c.perms[x, FALSE]]
        admin_permissions ==
            IF rb_is_admin(c, SessionUser(c))
            THEN Some([x \in Range(methods) |-> c.perms[x, TRUE]])
            ELSE None
    IN  [user |-> user_permissions, admin |-> admin_permissions]

\* The occurrence of the booking on its first day
ReservationOccurrenceSchemaWithPermissions_dump(b, c) ==
    [k \in ReservationOccurrenceFields |->
        CASE k = "permissions" -> ReservationOccurrenceSchemaWithPermissions_get_permissions(c)
          [] k = "reservation" -> ReservationSchema_dump(b, c)
          [] k = "start_dt" -> b.start_dt
          [] k = "end_dt" -> b.start_dt + 1
          [] k = "is_valid" -> b.is_accepted
          [] OTHER -> "unmodelled"]

---------------------------------------------------------------------------
(* BlockedRoomSchema *)

\* A room's full_name, as re.split('([0-9]+)', s) cuts it: text, digits, text, ...
\* with the digits read as a number; <<"A", 10, "">> is "A10"
FullNames == {<<"A", 2, "">>, <<"a", 10, "">>, <<"B", 1, "">>, <<"a", 2, "x">>}

\* text.lower(), as its place in the order of strings
LowerRank(text) ==
    CASE text = "" -> 0
      [] text \in {"A", "a"} -> 1
      [] text \in {"B", "b"} -> 2
      [] text \in {"X", "x"} -> 3

\* indico.util.string.natural_sort_key
natural_sort_key(s) ==
    [i \in 1..Len(s) |-> IF i % 2 = 1 THEN LowerRank(s[i]) ELSE s[i]]

sort_rooms(data, many) ==
    IF many
    THEN sorted(data,
                [i \in 1..Len(data) |-> natural_sort_key(data[i]["room"]["full_name"])],
                FALSE)
    ELSE data

---------------------------------------------------------------------------
(* BlockingSchema *)

BlockingFields ==
    {"id", "start_date", "end_date", "reason", "blocked_rooms", "allowed", "created_by",
     "permissions"}

BlockingMethods == <<"can_delete", "can_edit">>

BlockedRooms ==
    <<[room |-> [id |-> 2, full_name |-> <<"a", 10, "">>], state |-> "accepted"],
      [room |-> [id |-> 1, full_name |-> <<"A", 2, "">>], state |-> "pending"]>>

BlockingSchema_get_permissions(c) ==
    LET methods == BlockingMethods
        user_permissions == [x \in Range(methods) |-> c.perms[x, FALSE]]
        admin_permissions ==
            IF rb_is_admin(c, SessionUser(c))
            THEN Some([x \in Range(methods) |-> c.perms[x, TRUE]])
            ELSE None
    IN  [user |-> user_permissions, admin |-> admin_permissions]

BlockingSchema_dump(c) ==
    [k \in BlockingFields |->
        CASE k = "permissions" -> BlockingSchema_get_permissions(c)
          [] k = "blocked_rooms" -> sort_rooms(BlockedRooms, TRUE)
          [] OTHER -> "unmodelled"]

---------------------------------------------------------------------------
(* NonBookablePeriodAdminSchema *)

sort_list(data, many) ==
    IF many
    THEN sorted(data,
                [i \in 1..Len(data) |-> <<data[i]["start_dt"], data[i]["end_dt"]>>],
                FALSE)
    ELSE data

---------------------------------------------------------------------------
(* Legacy API schemas *)

\* babel's get_timezone(config.DEFAULT_TIMEZONE) put on a naive datetime
add_server_tz(dt) == [naive |-> dt, tzinfo |-> "DEFAULT_TIMEZONE"]

RoomLegacyAPIFields ==
    {"id", "building", "name", "floor", "longitude", "latitude", "number",
     "location_name", "full_name"}

RoomLegacyAPISchema_rename_keys(data) ==
    PopInto(PopInto(PopInto(data, "full_name", "fullName"),
                    "location_name", "location"),
            "number", "roomNr")

RoomLegacyMinimalAPIFields == {"id", "full_name"}

RoomLegacyMinimalAPISchema_rename_keys(data) == PopInto(data, "full_name", "fullName")

ReservationLegacyAPIFields ==
    {"id", "repeat_frequency", "repeat_interval", "booked_for_name",
     "external_details_url", "booking_reason", "is_accepted", "is_cancelled",
     "is_rejected", "location_name", "contact_email"}

\* Mutant: the hook asks about the session's user, as its parent class does
Mutant_legacy_hide_uses_session_user(data, b, c) ==
    IF ~can_see_details(c, SessionUserOrNone(c))
    THEN SetItem(SetItem(data, "booked_for_name", None), "contact_email", None)
    ELSE data

ReservationLegacyAPISchema_hide_sensitive_data(data, b, c) ==
    IF ~can_see_details(c, c.context_user)
    THEN SetItem(SetItem(data, "booked_for_name", None), "contact_email", None)
    ELSE data

\* Mutant: is_accepted is read, not popped
Mutant_rename_keys_keeps_is_accepted(data, orig) ==
    LET d1 == SetItem(data, "startDT", add_server_tz(orig.start_dt))
        d2 == SetItem(d1, "endDT", add_server_tz(Attr(orig, "end_dt")))
        d3 == PopInto(d2, "booked_for_name", "bookedForName")
        d4 == PopInto(d3, "external_details_url", "bookingUrl")
        d5 == PopInto(d4, "booking_reason", "reason")
        d6 == SetItem(SetItem(d5, "isValid", d5["is_accepted"]), "isConfirmed", d5["is_accepted"])
        d7 == PopInto(d6, "location_name", "location")
    IN  PopInto(d7, "contact_email", "booked_for_user_email")

ReservationLegacyAPISchema_rename_keys(data, orig) ==
    LET d1 == SetItem(data, "startDT", add_server_tz(orig.start_dt))
        d2 == SetItem(d1, "endDT", add_server_tz(Attr(orig, "end_dt")))
        d3 == PopInto(d2, "booked_for_name", "bookedForName")
        d4 == PopInto(d3, "external_details_url", "bookingUrl")
        d5 == PopInto(d4, "booking_reason", "reason")
        d6 == SetItem(PopInto(d5, "is_accepted", "isValid"), "isConfirmed", d5["is_accepted"])
        d7 == PopInto(d6, "location_name", "location")
    IN  PopInto(d7, "contact_email", "booked_for_user_email")

\* _add_missing_weekdays is inherited from ReservationSchema
ReservationLegacyAPISchema_hooks(data, b, c) ==
    ReservationLegacyAPISchema_rename_keys(
        ReservationLegacyAPISchema_hide_sensitive_data(
            ReservationSchema_add_missing_weekdays(data, b), b, c), b)

---------------------------------------------------------------------------
(* Dumping a booking: the specification Spec *)

NoForm == [constructed |-> FALSE]

Rooms ==
    [id : {10}, building : {"28"}, name : {"Auditorium"}, floor : {"1"},
     longitude : {6}, latitude : {46}, number : {"025", "026"},
     location_name : {"CERN", "Prevessin"},
     full_name : {"28/1-025 - Auditorium", "28/1-026"}]

Init ==
    /\ booking \in Bookings
    /\ call = [op |-> "init"]
    /\ raw = <<>>
    /\ out = <<>>
    /\ form = NoForm

\* Mutant: the dump stores the weekdays it backfilled on the booking
Mutant_DumpReservation_stores_weekdays ==
    /\ call.op = "init"
    /\ \E s \in Sessions, see \in SUBSET OptUsers :
           LET c == [op |-> "ReservationSchema", session |-> s, can_see |-> see]
           IN  /\ call' = c
               /\ raw' = FieldDump(booking, ReservationFields)
               /\ out' = ReservationSchema_dump(booking, c)
               /\ booking' = [booking EXCEPT !.recurrence_weekdays =
                                 ReservationSchema_dump(booking, c)["recurrence_weekdays"]]
               /\ UNCHANGED form

\* reservation_schema.dump(booking)
DumpReservation ==
    /\ call.op = "init"
    /\ \E s \in Sessions, see \in SUBSET OptUsers :
           LET c == [op |-> "ReservationSchema", session |-> s, can_see |-> see]
           IN  /\ call' = c
               /\ raw' = FieldDump(booking, ReservationFields)
               /\ out' = ReservationSchema_dump(booking, c)
               /\ UNCHANGED <<booking, form>>

\* reservation_details_schema.dump(booking); its fields read session.user, so
\* there is a request context
DumpReservationDetails ==
    /\ call.op = "init"
    /\ \E s \in BoundSessions, see \in SUBSET OptUsers, p \in PermTables(ReservationDetailsMethods) :
         \E manage \in SUBSET {s.user}, adm \in SUBSET {s.user} :
           LET c == [op |-> "ReservationDetailsSchema", session |-> s, can_see |-> see,
                     can_manage |-> manage, admins |-> adm, perms |-> p]
           IN  /\ call' = c
               /\ raw' = ReservationDetailsSchema_fields(booking, c)
               /\ out' = ReservationDetailsSchema_dump(booking, c)
               /\ UNCHANGED <<booking, form>>

\* ReservationLegacyAPISchema(context={'user': ...}).dump(booking); the context
\* may hold no user
DumpReservationLegacy ==
    /\ call.op = "init"
    /\ \E s \in Sessions, u \in OptUsers, see \in SUBSET OptUsers :
           LET c == [op |-> "ReservationLegacyAPISchema", session |-> s,
                     context_user |-> u, can_see |-> see]
           IN  /\ call' = c
               /\ raw' = FieldDump(booking, ReservationLegacyAPIFields)
               /\ out' = ReservationLegacyAPISchema_hooks(
                             FieldDump(booking, ReservationLegacyAPIFields), booking, c)
               /\ UNCHANGED <<booking, form>>

\* one item of reservation_occurrences_schema_with_permissions.dump(occurrences)
DumpOccurrenceWithPermissions ==
    /\ call.op = "init"
    /\ \E s \in BoundSessions, see \in SUBSET OptUsers,
          p \in PermTables(ReservationOccurrenceMethods) :
         \E adm \in SUBSET {s.user} :
           LET c == [op |-> "ReservationOccurrenceSchemaWithPermissions", session |-> s,
                     can_see |-> see, admins |-> adm, perms |-> p]
           IN  /\ call' = c
               /\ raw' = ReservationOccurrenceSchemaWithPermissions_dump(booking, c)
               /\ out' = ReservationOccurrenceSchemaWithPermissions_dump(booking, c)
               /\ UNCHANGED <<booking, form>>

\* one item of blockings_schema.dump(blockings)
DumpBlocking ==
    /\ call.op = "init"
    /\ \E s \in BoundSessions, p \in PermTables(BlockingMethods) :
         \E adm \in SUBSET {s.user} :
           LET c == [op |-> "BlockingSchema", session |-> s, admins |-> adm, perms |-> p]
           IN  /\ call' = c
               /\ raw' = BlockingSchema_dump(c)
               /\ out' = BlockingSchema_dump(c)
               /\ UNCHANGED <<booking, form>>

\* RoomLegacyAPISchema().dump(room)
DumpRoomLegacy ==
    /\ call.op = "init"
    /\ \E room \in Rooms :
           /\ call' = [op |-> "RoomLegacyAPISchema", room |-> room]
           /\ raw' = [k \in RoomLegacyAPIFields |-> room[k]]
           /\ out' = RoomLegacyAPISchema_rename_keys([k \in RoomLegacyAPIFields |-> room[k]])
           /\ UNCHANGED <<booking, form>>

\* RoomLegacyMinimalAPISchema().dump(room)
DumpRoomLegacyMinimal ==
    /\ call.op = "init"
    /\ \E room \in Rooms :
           /\ call' = [op |-> "RoomLegacyMinimalAPISchema", room |-> room]
           /\ raw' = [k \in RoomLegacyMinimalAPIFields |-> room[k]]
           /\ out' = RoomLegacyMinimalAPISchema_rename_keys(
                         [k \in RoomLegacyMinimalAPIFields |-> room[k]])
           /\ UNCHANGED <<booking, form>>

Next ==
    \/ DumpReservation
    \/ DumpReservationDetails
    \/ DumpReservationLegacy
    \/ DumpOccurrenceWithPermissions
    \/ DumpBlocking
    \/ DumpRoomLegacy
    \/ DumpRoomLegacyMinimal

Spec == Init /\ [][Next]_vars

---------------------------------------------------------------------------
(* Dumping with a sorting hook: the specification SpecSort *)

DefaultBooking ==
    CHOOSE b \in Bookings :
        b.start_dt = 9 /\ b.repeat_frequency = "NEVER" /\ b.recurrence_weekdays = None
            /\ b.is_accepted

LogItems ==
    [id : 1..2, timestamp : 0..MaxStamp, info : {"edited"}, user_name : {"Alice"}]

PeriodItems == {p \in [start_dt : 0..MaxStamp, end_dt : 0..MaxStamp] : p.start_dt <= p.end_dt}

BlockedRoomItems ==
    {[room |-> [id |-> 1, full_name |-> n], state |-> "accepted"] : n \in FullNames}

InitSort ==
    /\ booking = DefaultBooking
    /\ call = [op |-> "init"]
    /\ raw = <<>>
    /\ out = <<>>
    /\ form = NoForm

\* ReservationEditLogSchema(many=many).dump(logs)
DumpEditLogs ==
    /\ call.op = "init"
    /\ \/ \E data \in SeqsUpTo(LogItems, MaxLen) :
            /\ call' = [op |-> "ReservationEditLogSchema", many |-> TRUE]
            /\ raw' = data
            /\ out' = sort_logs(data, TRUE)
       \/ \E data \in LogItems :
            /\ call' = [op |-> "ReservationEditLogSchema", many |-> FALSE]
            /\ raw' = data
            /\ out' = sort_logs(data, FALSE)
    /\ UNCHANGED <<booking, form>>

\* NonBookablePeriodAdminSchema(many=many).dump(periods)
DumpNonBookablePeriods ==
    /\ call.op = "init"
    /\ \/ \E data \in SeqsUpTo(PeriodItems, MaxLen) :
            /\ call' = [op |-> "NonBookablePeriodAdminSchema", many |-> TRUE]
            /\ raw' = data
            /\ out' = sort_list(data, TRUE)
       \/ \E data \in PeriodItems :
            /\ call' = [op |-> "NonBookablePeriodAdminSchema", many |-> FALSE]
            /\ raw' = data
            /\ out' = sort_list(data, FALSE)
    /\ UNCHANGED <<booking, form>>

\* BlockedRoomSchema(many=many).dump(blocked_rooms)
DumpBlockedRooms ==
    /\ call.op = "init"
    /\ \/ \E data \in SeqsUpTo(BlockedRoomItems, MaxLen) :
            /\ call' = [op |-> "BlockedRoomSchema", many |-> TRUE]
            /\ raw' = data
            /\ out' = sort_rooms(data, TRUE)
       \/ \E data \in BlockedRoomItems :
            /\ call' = [op |-> "BlockedRoomSchema", many |-> FALSE]
            /\ raw' = data
            /\ out' = sort_rooms(data, FALSE)
    /\ UNCHANGED <<booking, form>>

NextSort ==
    \/ DumpEditLogs
    \/ DumpNonBookablePeriods
    \/ DumpBlockedRooms

SpecSort == InitSort /\ [][NextSort]_vars

---------------------------------------------------------------------------
(* Dumps one after the other of a stored booking, its room and its links:
   the specification SpecSeq *)

\* ReservationOccurrenceLink rows
Links ==
    [id : {5}, link_type : {"EVENT"}, object : {[title |-> "Workshop", url |-> "/event/1/"]},
     reservation_occurrence : {[start_dt |-> 9, state |-> "valid"]}]

ReservationOccurrenceLinkFields == {"id", "type", "object", "start_dt", "state"}

ReservationOccurrenceLinkSchema_fields(link) ==
    [k \in ReservationOccurrenceLinkFields |->
        CASE k = "type" -> link.link_type
          [] k = "object" -> Some(link.object)
          [] k = "start_dt" -> link.reservation_occurrence.start_dt
          [] k = "state" -> link.reservation_occurrence.state
          [] OTHER -> link[k]]

\* link.object.can_access(user): an answer of the domain layer
can_access(c, user) == user \in c.can_access

ReservationOccurrenceLinkSchema_hide_restricted_object(data, link, c) ==
    IF ~can_access(c, SessionUser(c)) THEN SetItem(data, "object", None) ELSE data

\* A booking with the records it refers to: booking.room and booking.links
StoredBooking(b, room, links) ==
    [k \in DOMAIN b \cup {"room", "links"} |->
        CASE k = "room" -> room
          [] k = "links" -> links
          [] OTHER -> b[k]]

StoredBookings ==
    {StoredBooking(b, room, links) :
        b \in {x \in Bookings : x.start_dt = DefaultBooking.start_dt /\ x.is_accepted},
        room \in {r \in Rooms : r.number = "025" /\ r.location_name = "CERN"},
        links \in SeqsUpTo(Links, 1)}

InitSeq ==
    /\ booking \in StoredBookings
    /\ call = [op |-> "init"]
    /\ raw = <<>>
    /\ out = <<>>
    /\ form = NoForm

\* RoomLegacyAPISchema().dump(booking.room)
DumpBookingRoom ==
    /\ call.op = "init"
    /\ call' = [op |-> "RoomLegacyAPISchema", room |-> booking.room]
    /\ raw' = [k \in RoomLegacyAPIFields |-> booking.room[k]]
    /\ out' = RoomLegacyAPISchema_rename_keys([k \in RoomLegacyAPIFields |-> booking.room[k]])
    /\ UNCHANGED <<booking, form>>

\* ReservationOccurrenceLinkSchema().dump(link) for a link of the booking
DumpBookingLink ==
    /\ call.op = "init"
    /\ \E i \in DOMAIN booking.links, s \in BoundSessions :
         \E access \in SUBSET {s.user} :
           LET c == [op |-> "ReservationOccurrenceLinkSchema", session |-> s,
                     can_access |-> access, link |-> i]
           IN  /\ call' = c
               /\ raw' = ReservationOccurrenceLinkSchema_fields(booking.links[i])
               /\ out' = ReservationOccurrenceLinkSchema_hide_restricted_object(
                             ReservationOccurrenceLinkSchema_fields(booking.links[i]),
                             booking.links[i], c)
               /\ UNCHANGED <<booking, form>>

\* The caller takes the result; the next dump can start
Return ==
    /\ call.op # "init"
    /\ call' = [op |-> "init"]
    /\ raw' = <<>>
    /\ out' = <<>>
    /\ UNCHANGED <<booking, form>>

NextSeq ==
    \/ DumpReservation
    \/ DumpReservationDetails
    \/ DumpReservationLegacy
    \/ DumpOccurrenceWithPermissions
    \/ DumpBookingRoom
    \/ DumpBookingLink
    \/ Return

SpecSeq == InitSeq /\ [][NextSeq]_vars

---------------------------------------------------------------------------
(* ReminderForm *)

ReminderFormFields ==
    {"schedule_type", "relative_delta", "absolute_dt", "recipients",
     "send_to_participants", "forms", "tags", "all_tags", "send_to_speakers",
     "reply_to_address", "message", "include_summary", "include_description",
     "attach_ical"}

EventType == {"lecture", "meeting", "conference"}

FormTimes == {d * 24 + h : d \in 0..MaxFormDay, h \in {0, 23}}

Events ==
    [type_ : EventType,
     regforms : 0..MaxCount,        \* RegistrationForm.query.with_parent(event).count()
     tags : 0..MaxCount,            \* rows of RegistrationTag.query.with_parent(event)
     start_dt : {MaxFormDay * 24, MaxFormDay * 24 + 23}]

\* What a request can submit for the fields the form computes with
FormData ==
    [schedule_type : {None} \cup {Some(t) : t \in {"relative", "absolute", "now", "bogus"}},
     absolute_dt : {None} \cup {Some(t) : t \in FormTimes},
     relative_delta : {None} \cup {Some(d) : d \in {0, 24}},
     recipients : {<<>>, <<"a@example.org">>},
     send_to_participants : BOOLEAN,
     send_to_speakers : BOOLEAN]

\* Mutant: include_summary is removed for meetings instead of lectures
Mutant_PresentFields_wrong_type(event) ==
    LET f1 == IF event.type_ = "meeting"
              THEN ReminderFormFields \ {"include_summary"}
              ELSE ReminderFormFields
        f2 == IF event.regforms > 1 THEN f1 ELSE f1 \ {"forms"}
    IN  IF event.tags > 0 THEN f2 ELSE f2 \ {"tags", "all_tags"}

\* Mutant: one registration form is enough to keep the forms field
Mutant_PresentFields_one_regform(event) ==
    LET f1 == IF event.type_ = "lecture"
              THEN ReminderFormFields \ {"include_summary"}
              ELSE ReminderFormFields
        f2 == IF event.regforms > 0 THEN f1 ELSE f1 \ {"forms"}
    IN  IF event.tags > 0 THEN f2 ELSE f2 \ {"tags", "all_tags"}

\* The fields left on the form by __init__
PresentFields(event) ==
    LET f1 == IF event.type_ = "lecture"
              THEN ReminderFormFields \ {"include_summary"}
              ELSE ReminderFormFields
        f2 == IF event.regforms > 1 THEN f1 ELSE f1 \ {"forms"}
    IN  IF event.tags > 0 THEN f2 ELSE f2 \ {"tags", "all_tags"}

\* The fields __init__ gives a query
FieldQueries(event) ==
    (IF event.regforms > 1 THEN {"forms"} ELSE {}) \cup (IF event.tags > 0 THEN {"tags"} ELSE {})

ReminderForm_init(event, formdata) ==
    [constructed |-> TRUE,
     event |-> event,
     timezone |-> "event.timezone",
     fields |-> PresentFields(event),
     queries |-> FieldQueries(event),
     data |-> formdata]

RecipientRequired == "At least one type of recipient is required."
DateInPast == "The specified date is in the past"

\* A validator gives the set of the messages it raised
validate_recipients(f) ==
    IF f.data.recipients = <<>> /\ ~f.data.send_to_participants /\ ~f.data.send_to_speakers
    THEN {RecipientRequired}
    ELSE {}

validate_send_to_participants(f) ==
    IF ~f.data.send_to_participants /\ f.data.recipients = <<>> /\ ~f.data.send_to_speakers
    THEN {RecipientRequired}
    ELSE {}

\* Mutant: the speakers' validator forgets the email addresses
Mutant_validate_send_to_speakers_no_recipients(f) ==
    IF ~f.data.send_to_speakers /\ ~f.data.send_to_participants
    THEN {RecipientRequired}
    ELSE {}

validate_send_to_speakers(f) ==
    IF ~f.data.send_to_speakers /\ f.data.recipients = <<>> /\ ~f.data.send_to_participants
    THEN {RecipientRequired}
    ELSE {}

\* Mutant: the offset is added to the event's start
Mutant_scheduled_dt_after_start(f, now) ==
    IF f.data.schedule_type = Some("absolute")
    THEN f.data.absolute_dt
    ELSE IF f.data.schedule_type = Some("relative")
    THEN IF f.data.relative_delta = None
         THEN None
         ELSE Some(f.event.start_dt + TheValue(f.data.relative_delta))
    ELSE IF f.data.schedule_type = Some("now")
    THEN Some(now)
    ELSE None

\* now is what now_utc() returns when it is called
scheduled_dt(f, now) ==
    IF f.data.schedule_type = Some("absolute")
    THEN IF f.data.absolute_dt = None THEN None ELSE f.data.absolute_dt
    ELSE IF f.data.schedule_type = Some("relative")
    THEN IF f.data.relative_delta = None
         THEN None
         ELSE Some(f.event.start_dt - TheValue(f.data.relative_delta))
    ELSE IF f.data.schedule_type = Some("now")
    THEN Some(now)
    ELSE None

\* Mutant: the offset is given whatever the schedule type
Mutant_event_start_delta_always(f) == f.data.relative_delta

event_start_delta(f) ==
    IF f.data.schedule_type = Some("relative") THEN f.data.relative_delta ELSE None

\* datetime.date()
date(dt) == dt \div 24

\* Mutant: the times are compared, not their calendar dates
Mutant_validate_schedule_type_compares_times(f, now) ==
    IF f.data.schedule_type = Some("now")
    THEN {}
    ELSE LET dt == scheduled_dt(f, now)
         IN  IF dt # None /\ TheValue(dt) < now THEN {DateInPast} ELSE {}

validate_schedule_type(f, now) ==
    IF f.data.schedule_type = Some("now")
    THEN {}
    ELSE LET dt == scheduled_dt(f, now)
         IN  IF dt # None /\ date(TheValue(dt)) < date(now) THEN {DateInPast} ELSE {}

---------------------------------------------------------------------------
(* The reminder form: the specification SpecForm *)

InitForm ==
    /\ booking = DefaultBooking
    /\ call = [op |-> "init"]
    /\ raw = <<>>
    /\ out = <<>>
    /\ form = NoForm

\* ReminderForm(event=event) in a request that submitted formdata
Construct ==
    /\ ~form.constructed
    /\ \E event \in Events, formdata \in FormData :
          /\ form' = ReminderForm_init(event, formdata)
          /\ call' = [op |-> "ReminderForm"]
    /\ UNCHANGED <<booking, raw, out>>

\* form.validate(): the inline validators of the form
Validate ==
    /\ form.constructed
    /\ call.op = "ReminderForm"
    /\ \E now \in FormTimes :
          /\ call' = [op |-> "validate", now |-> now]
          /\ out' = [recipients |-> validate_recipients(form),
                     send_to_participants |-> validate_send_to_participants(form),
                     send_to_speakers |-> validate_send_to_speakers(form),
                     schedule_type |-> validate_schedule_type(form, now)]
    /\ UNCHANGED <<booking, raw, form>>

\* form.data: the generated data of the form
GeneratedData ==
    /\ form.constructed
    /\ call.op = "ReminderForm"
    /\ \E now \in FormTimes :
          /\ call' = [op |-> "data", now |-> now]
          /\ out' = [scheduled_dt |-> scheduled_dt(form, now),
                     event_start_delta |-> event_start_delta(form)]
    /\ UNCHANGED <<booking, raw, form>>

NextForm ==
    \/ Construct
    \/ Validate
    \/ GeneratedData

SpecForm == InitForm /\ [][NextForm]_vars

---------------------------------------------------------------------------
(* Properties of the booking schemas *)

\* WEEKDAYS[start_dt.weekday()], the day counted from the epoch's Monday
DayName(dt) == WEEKDAYS[((dt \div 24) % 7) + 1]

LegacyWeekly(b) == b.repeat_frequency = "WEEK" /\ b.recurrence_weekdays = None

\* C1: a booking dumped with ReservationSchema or ReservationDetailsSchema has
\* recurrence_weekdays = [weekday name of start_dt] when it is weekly and stores
\* no weekdays, and the stored value unchanged in every other case.
C1_WeekdayBackfill ==
    call.op \in {"ReservationSchema", "ReservationDetailsSchema"} =>
        out["recurrence_weekdays"] =
            IF LegacyWeekly(booking)
            THEN Some(<<DayName(booking.start_dt)>>)
            ELSE booking.recurrence_weekdays

C1_Witness ==
    /\ call.op = "ReservationSchema"
    /\ LegacyWeekly(booking)
    /\ booking.start_dt = 3 * 24 + 9
    /\ out["recurrence_weekdays"] = Some(<<"thu">>)

\* C2: ReservationDetailsSchema gives a weekly booking that stores no weekdays a
\* repetition of three elements: the first two as dumped, the third the
\* backfilled weekday list, equal to the output's recurrence_weekdays; the
\* repetition of any other booking is as dumped.
C2_RepetitionBackfill ==
    call.op = "ReservationDetailsSchema" =>
        IF LegacyWeekly(booking)
        THEN /\ Len(out["repetition"]) = 3
             /\ out["repetition"][1] = raw["repetition"][1]
             /\ out["repetition"][2] = raw["repetition"][2]
             /\ out["repetition"][3] = Some(<<DayName(booking.start_dt)>>)
             /\ out["repetition"][3] = out["recurrence_weekdays"]
        ELSE out["repetition"] = raw["repetition"]

C2_Witness ==
    /\ call.op = "ReservationDetailsSchema"
    /\ LegacyWeekly(booking)
    /\ raw["repetition"] = <<"WEEK", 1, None>>
    /\ out["repetition"] = <<"WEEK", 1, Some(<<"sun">>)>>

\* The method list of each schema that dumps permissions
MethodsOf(op) ==
    CASE op = "ReservationOccurrenceSchemaWithPermissions" -> {"can_cancel", "can_reject"}
      [] op = "ReservationDetailsSchema" ->
            {"can_accept", "can_cancel", "can_delete", "can_edit", "can_reject"}
      [] op = "BlockingSchema" -> {"can_delete", "can_edit"}

PermissionSchemas ==
    {"ReservationOccurrenceSchemaWithPermissions", "ReservationDetailsSchema",
     "BlockingSchema"}

\* C5: 'permissions' has exactly the keys 'user' and 'admin'; 'user' maps each
\* method of the schema's list to its answer with allow_admin=False; 'admin' is
\* None exactly when rb_is_admin(session.user) is false and otherwise maps the
\* same methods to their answers with admin rights allowed.
C5_Permissions ==
    call.op \in PermissionSchemas =>
        LET perms == out["permissions"]
            methods == MethodsOf(call.op)
            isAdmin == call.session.user \in call.admins
        IN  /\ DOMAIN perms = {"user", "admin"}
            /\ DOMAIN perms["user"] = methods
            /\ \A m \in methods : perms["user"][m] = call.perms[m, FALSE]
            /\ (perms["admin"] = None) <=> ~isAdmin
            /\ isAdmin =>
                   /\ DOMAIN TheValue(perms["admin"]) = methods
                   /\ \A m \in methods : TheValue(perms["admin"])[m] = call.perms[m, TRUE]

C5_Witness ==
    /\ call.op = "BlockingSchema"
    /\ call.session.user = Some("alice")
    /\ out["permissions"]["user"] = [can_delete |-> FALSE, can_edit |-> FALSE]
    /\ out["permissions"]["admin"] = Some([can_delete |-> TRUE, can_edit |-> TRUE])

\* What the renaming hook of ReservationLegacyAPISchema is handed: the dumped
\* fields after the hooks that run before it
BeforeRename ==
    ReservationLegacyAPISchema_hide_sensitive_data(
        ReservationSchema_add_missing_weekdays(raw, booking), booking, call)

RoomRenames ==
    {<<"full_name", "fullName">>, <<"location_name", "location">>, <<"number", "roomNr">>}

ReservationRenames ==
    {<<"booked_for_name", "bookedForName">>, <<"external_details_url", "bookingUrl">>,
     <<"booking_reason", "reason">>, <<"is_accepted", "isConfirmed">>,
     <<"is_accepted", "isValid">>, <<"location_name", "location">>,
     <<"contact_email", "booked_for_user_email">>}

\* before was renamed into after by the pairs of renames
Renamed(before, after, renames) ==
    /\ \A r \in renames :
          /\ r[1] \notin DOMAIN after
          /\ r[2] \in DOMAIN after
          /\ after[r[2]] = before[r[1]]
    /\ \A k \in (DOMAIN before) \ {r[1] : r \in renames} :
          k \in DOMAIN after /\ after[k] = before[k]

\* C9: the legacy schemas leave none of the renamed snake_case keys, each new
\* key carries the value its old key had just before the renaming (isConfirmed
\* and isValid both that of is_accepted), and the other keys keep their values.
C9_LegacyRenaming ==
    /\ call.op = "RoomLegacyAPISchema" => Renamed(raw, out, RoomRenames)
    /\ call.op = "RoomLegacyMinimalAPISchema" =>
           Renamed(raw, out, {<<"full_name", "fullName">>})
    /\ call.op = "ReservationLegacyAPISchema" =>
           Renamed(BeforeRename, out, ReservationRenames)

C9_Witness ==
    /\ call.op = "ReservationLegacyAPISchema"
    /\ booking.is_accepted = FALSE
    /\ out["isConfirmed"] = FALSE
    /\ out["isValid"] = FALSE
    /\ out["bookedForName"] = Some("Alice")
    /\ out["is_cancelled"] = FALSE
    /\ "is_accepted" \notin DOMAIN out

---------------------------------------------------------------------------
(* Properties of the sorting hooks *)

Count(x, s) == Cardinality({i \in 1..Len(s) : s[i] = x})

IsPermutation(a, b) ==
    /\ Len(a) = Len(b)
    /\ \A x \in Range(a) \cup Range(b) : Count(x, a) = Count(x, b)

\* The natural order of two of the modelled room names: text without case,
\* then the number by value, then the rest without case
NaturalLeq(m, n) ==
    \/ LowerRank(m[1]) < LowerRank(n[1])
    \/ /\ LowerRank(m[1]) = LowerRank(n[1])
       /\ \/ m[2] < n[2]
          \/ m[2] = n[2] /\ LowerRank(m[3]) <= LowerRank(n[3])

InOrder(op, x, y) ==
    CASE op = "ReservationEditLogSchema" -> x["timestamp"] >= y["timestamp"]
      [] op = "NonBookablePeriodAdminSchema" ->
            \/ x["start_dt"] < y["start_dt"]
            \/ x["start_dt"] = y["start_dt"] /\ x["end_dt"] <= y["end_dt"]
      [] op = "BlockedRoomSchema" -> NaturalLeq(x["room"]["full_name"], y["room"]["full_name"])

SortingSchemas ==
    {"ReservationEditLogSchema", "NonBookablePeriodAdminSchema", "BlockedRoomSchema"}

\* C10: with many=True the result is a permutation of the dumped items, ordered
\* by descending timestamp (edit logs), by ascending (start_dt, end_dt)
\* (nonbookable periods) or by the natural key of the room's full_name (blocked
\* rooms); with many=False the data is returned unchanged.
C10_SortingHooks ==
    call.op \in SortingSchemas =>
        IF call.many
        THEN /\ IsPermutation(raw, out)
             /\ \A i, j \in 1..Len(out) : i < j => InOrder(call.op, out[i], out[j])
        ELSE out = raw

C10_Witness ==
    /\ call.op = "ReservationEditLogSchema"
    /\ call.many
    /\ Len(raw) = 3
    /\ raw[1]["timestamp"] = 0 /\ raw[2]["timestamp"] = 1 /\ raw[3]["timestamp"] = 0
    /\ out = <<raw[2], raw[1], raw[3]>>

---------------------------------------------------------------------------
(* Properties of the reminder form *)

\* C3: a constructed ReminderForm has include_summary exactly when the event is
\* not a lecture, and the presence of every other field is decided without the
\* event's type.
C3_IncludeSummary ==
    form.constructed =>
        /\ form.fields \subseteq ReminderFormFields
        /\ ("include_summary" \in form.fields) <=> (form.event.type_ # "lecture")
        /\ \A f \in ReminderFormFields \ {"include_summary"} :
              (f \in form.fields) <=>
                  CASE f = "forms" -> form.event.regforms > 1
                    [] f \in {"tags", "all_tags"} -> form.event.tags > 0
                    [] OTHER -> TRUE

C3_Witness ==
    /\ form.constructed
    /\ form.event.type_ = "lecture"
    /\ form.event.regforms = 2
    /\ form.event.tags = 1
    /\ form.fields = ReminderFormFields \ {"include_summary"}

\* C4: a constructed ReminderForm has forms exactly when the event has more
\* than one registration form, has tags and all_tags together, exactly when
\* the event has a registration tag, and each of the three decisions
\* (include_summary, forms, tags/all_tags) follows its own input alone.
C4_FormsAndTags ==
    form.constructed =>
        /\ ("forms" \in form.fields) <=> (form.event.regforms >= 2)
        /\ ("tags" \in form.fields) <=> ("all_tags" \in form.fields)
        /\ ("tags" \in form.fields) <=> (form.event.tags >= 1)
        /\ ("include_summary" \in form.fields) <=> (form.event.type_ \in {"meeting", "conference"})

C4_Witness ==
    /\ form.constructed
    /\ form.event.type_ = "meeting"
    /\ form.event.regforms = 1
    /\ form.event.tags = 1
    /\ form.fields = ReminderFormFields \ {"forms"}

NoRecipient(f) ==
    /\ Len(f.data.recipients) = 0
    /\ f.data.send_to_participants = FALSE
    /\ f.data.send_to_speakers = FALSE

\* C6: each of the validators of recipients, send_to_participants and
\* send_to_speakers raises 'At least one type of recipient is required.'
\* exactly when there is no email address and neither box is ticked, so the
\* three always agree.
C6_RecipientValidators ==
    call.op = "validate" =>
        \A k \in {"recipients", "send_to_participants", "send_to_speakers"} :
            out[k] = IF NoRecipient(form)
                     THEN {"At least one type of recipient is required."}
                     ELSE {}

C6_Witness ==
    /\ call.op = "validate"
    /\ NoRecipient(form)
    /\ out["recipients"] = {RecipientRequired}
    /\ out["send_to_participants"] = {RecipientRequired}
    /\ out["send_to_speakers"] = {RecipientRequired}

\* C7: scheduled_dt is absolute_dt for 'absolute', event.start_dt minus
\* relative_delta for 'relative', the current UTC time for 'now', and None for
\* 'absolute' without absolute_dt, 'relative' without relative_delta and any
\* other schedule type.
C7_ScheduledDt ==
    call.op = "data" =>
        LET d == form.data
        IN  out["scheduled_dt"] =
                CASE d.schedule_type = Some("absolute") /\ d.absolute_dt # None -> d.absolute_dt
                  [] d.schedule_type = Some("relative") /\ d.relative_delta # None ->
                        {form.event.start_dt - x : x \in d.relative_delta}
                  [] d.schedule_type = Some("now") -> Some(call.now)
                  [] OTHER -> None

C7_Witness ==
    /\ call.op = "data"
    /\ form.data.schedule_type = Some("relative")
    /\ form.data.relative_delta = Some(24)
    /\ form.event.start_dt = MaxFormDay * 24 + 23
    /\ out["scheduled_dt"] = Some(MaxFormDay * 24 - 1)

\* C8: event_start_delta is not None only for schedule type 'relative'; when it
\* is not None, scheduled_dt is event.start_dt minus event_start_delta; for
\* 'absolute' and 'now' it is None even when a relative_delta was submitted.
C8_EventStartDelta ==
    call.op = "data" =>
        /\ out["event_start_delta"] # None =>
              /\ form.data.schedule_type = Some("relative")
              /\ out["scheduled_dt"] =
                     {form.event.start_dt - x : x \in out["event_start_delta"]}
        /\ form.data.schedule_type \in {Some("absolute"), Some("now")} =>
              out["event_start_delta"] = None

C8_Witness ==
    /\ call.op = "data"
    /\ form.data.schedule_type = Some("relative")
    /\ out["event_start_delta"] = Some(0)
    /\ out["scheduled_dt"] = Some(form.event.start_dt)

\* What the form would send at: None when it cannot tell
C12_ScheduledFor(f) ==
    CASE f.data.schedule_type = Some("absolute") -> f.data.absolute_dt
      [] f.data.schedule_type = Some("relative") ->
            {f.event.start_dt - x : x \in f.data.relative_delta}
      [] OTHER -> None

\* C12: validate_schedule_type raises 'The specified date is in the past'
\* exactly when schedule_type is not 'now', scheduled_dt is not None and the
\* calendar date of scheduled_dt is strictly before the current UTC date; so a
\* time earlier on the current day is accepted, 'now' is always accepted and a
\* missing absolute_dt or relative_delta never gives this error.
C12_ScheduleTypeInPast ==
    call.op = "validate" =>
        LET dt == C12_ScheduledFor(form)
            raised == "The specified date is in the past" \in out["schedule_type"]
        IN  /\ raised <=> /\ form.data.schedule_type # Some("now")
                           /\ dt # None
                           /\ \E x \in dt : x \div 24 < call.now \div 24
            /\ out["schedule_type"] \subseteq {"The specified date is in the past"}
            /\ (\E x \in dt : x < call.now /\ x \div 24 = call.now \div 24) => ~raised
            /\ form.data.schedule_type = Some("now") => ~raised
            /\ (form.data.schedule_type = Some("absolute") /\ form.data.absolute_dt = None)
                   => ~raised
            /\ (form.data.schedule_type = Some("relative") /\ form.data.relative_delta = None)
                   => ~raised

\* A reminder for 00:00 of the day validated at 23:00 of that day is accepted,
\* and one for the day before is refused
C12_Witness ==
    /\ call.op = "validate"
    /\ form.data.schedule_type = Some("absolute")
    /\ form.data.absolute_dt = Some(MaxFormDay * 24)
    /\ call.now = MaxFormDay * 24 + 23
    /\ out["schedule_type"] = {}

---------------------------------------------------------------------------
(* Hiding of sensitive data *)

\* The user of the session, None when there is no session
C13_User == IF call.session.state = "active" THEN call.session.user ELSE None

\* C13: when booking.can_see_details(user) is false, ReservationSchema gives
\* booked_for_name = None and ReservationDetailsSchema gives booked_for_user,
\* created_by_user and edit_logs = None; when booking.room.can_manage(user) is
\* false the ReservationDetailsSchema output has no internal_note key; when
\* the check is true the values are the dumped ones.  The user is None when
\* there is no session.
C13_HideSensitiveData ==
    /\ call.op = "ReservationSchema" =>
          /\ DOMAIN out = ReservationFields
          /\ out["booked_for_name"] =
                 IF C13_User \in call.can_see THEN booking.booked_for_name ELSE None
    /\ call.op = "ReservationDetailsSchema" =>
          /\ \A k \in {"booked_for_user", "created_by_user", "edit_logs"} :
                 /\ k \in DOMAIN out
                 /\ out[k] = IF C13_User \in call.can_see THEN raw[k] ELSE None
          /\ raw["booked_for_user"] = booking.booked_for_user
          /\ raw["created_by_user"] = booking.created_by_user
          /\ raw["edit_logs"] # None
          /\ IF C13_User \in call.can_manage
             THEN /\ DOMAIN out = ReservationDetailsFields
                  /\ out["internal_note"] = booking.internal_note
             ELSE DOMAIN out = ReservationDetailsFields \ {"internal_note"}

\* An empty session: the user is None, who may neither see details nor manage
C13_Witness ==
    /\ call.op = "ReservationDetailsSchema"
    /\ call.session.state = "empty"
    /\ None \notin call.can_see
    /\ None \notin call.can_manage
    /\ "internal_note" \notin DOMAIN out
    /\ out["edit_logs"] = None
    /\ out["booked_for_user"] = None
    /\ out["created_by_user"] = None

\* C14: in ReservationLegacyAPISchema, whenever
\* booking.can_see_details(context user) is false the final output has
\* bookedForName = None and booked_for_user_email = None and neither a
\* booked_for_name nor a contact_email key; the check asks about the user of
\* the schema context (None if absent), whoever the session's user is.
C14_LegacyHiding ==
    call.op = "ReservationLegacyAPISchema" =>
        /\ {"bookedForName", "booked_for_user_email"} \subseteq DOMAIN out
        /\ {"booked_for_name", "contact_email"} \cap DOMAIN out = {}
        /\ call.context_user \notin call.can_see =>
              /\ out["bookedForName"] = None
              /\ out["booked_for_user_email"] = None
        /\ call.context_user \in call.can_see =>
              /\ out["bookedForName"] = booking.booked_for_name
              /\ out["booked_for_user_email"] = booking.contact_email

\* The session's user may see the details, the context holds no user
C14_Witness ==
    /\ call.op = "ReservationLegacyAPISchema"
    /\ call.session = [state |-> "active", user |-> Some("alice")]
    /\ call.context_user = None
    /\ call.can_see = {Some("alice")}
    /\ booking.booked_for_name # None
    /\ out["bookedForName"] = None
    /\ out["booked_for_user_email"] = None
    /\ "booked_for_name" \notin DOMAIN out
    /\ "contact_email" \notin DOMAIN out

---------------------------------------------------------------------------
(* Dumping leaves the stored records alone *)

\* C11: the post_dump hooks change only the output: over any sequence of
\* dumps the booking, its room and its links keep their field values, and a
\* legacy weekly booking still stores recurrence_weekdays = None after a dump
\* that gave backfilled weekdays.
C11_ReadOnly ==
    [][/\ booking' = booking
       /\ booking'.room = booking.room
       /\ booking'.links = booking.links
       /\ (/\ LegacyWeekly(booking)
           /\ call'.op \in {"ReservationSchema", "ReservationDetailsSchema",
                             "ReservationLegacyAPISchema"})
             => /\ out'["recurrence_weekdays"] = Some(<<DayName(booking.start_dt)>>)
                /\ booking'.recurrence_weekdays = None]_vars

C11_Witness ==
    /\ call.op = "ReservationDetailsSchema"
    /\ booking.repeat_frequency = "WEEK"
    /\ booking.recurrence_weekdays = None
    /\ out["recurrence_weekdays"] = Some(<<"mon">>)
    /\ Len(booking.links) = 1
    /\ booking.room \in Rooms

---------------------------------------------------------------------------
(* CreateBookingSchema: the specification SpecLoad *)

\* The keys a request submits, by data_key; the other fields of the schema are
\* never submitted and take their load_default or stay absent
SubmittedKeys ==
    {"start_dt", "end_dt", "repeat_frequency", "recurrence_weekdays", "room_id", "reason",
     "link_id"}

\* ISO texts of times of one day, all naive; the i-th stands for the hour 8 + i
DateTimeTexts == <<"2030-01-07T09:00:00", "2030-01-07T10:00:00">>

\* What may be submitted for each key; None stands for a key left out
SubmittedValues ==
    [start_dt : {None, Some("soon")} \cup {Some(t) : t \in Range(DateTimeTexts)},
     end_dt : {None} \cup {Some(t) : t \in Range(DateTimeTexts)},
     repeat_frequency : {Some("WEEK"), Some("DAY"), Some("YEARLY")},
     recurrence_weekdays :
         {None} \cup {Some(l) : l \in SeqsUpTo({"mon", "tue", "someday"}, MaxSubmitted)},
     room_id : {None, Some(10)},
     reason : {None, Some(""), Some("seminar")},
     link_id : {None, Some(3)}]

\* The submitted dict
Submitted(o) == [k \in {x \in SubmittedKeys : o[x] # None} |-> TheValue(o[k])]

BookingReasonRequiredOptions == {"always", "never", "not_for_events"}

MissingData == "Missing data for required field."
InvalidDateTime == "Not a valid datetime."
InvalidChoice == "Must be one of the choices."
EndBeforeStart == "Booking cannot end before it starts"
DuplicateWeekdays == "Duplicate weekdays"
ReasonNotSpecified == "Booking reason not specified"

\* fields.DateTime: the hour of an ISO text, None for any other text
DateTime_deserialize(text) ==
    IF \E i \in DOMAIN DateTimeTexts : DateTimeTexts[i] = text
    THEN Some(8 + CHOOSE i \in DOMAIN DateTimeTexts : DateTimeTexts[i] = text)
    ELSE None

\* The messages of the fields' own validation, by data_key
FieldErrorsOf(d, k) ==
    CASE k \in {"start_dt", "end_dt"} ->
            IF k \notin DOMAIN d THEN {MissingData}
            ELSE IF DateTime_deserialize(d[k]) = None THEN {InvalidDateTime}
            ELSE {}
      [] k = "repeat_frequency" ->
            IF k \notin DOMAIN d THEN {MissingData}
            ELSE IF d[k] \notin RepeatFrequency THEN {InvalidChoice}
            ELSE {}
      [] k = "recurrence_weekdays" ->
            IF k \in DOMAIN d /\ \E i \in DOMAIN d[k] : d[k][i] \notin Range(WEEKDAYS)
            THEN {InvalidChoice}
            ELSE {}
      [] k = "room_id" -> IF k \notin DOMAIN d THEN {MissingData} ELSE {}
      [] OTHER -> {}

\* The attribute a data_key is loaded into
AttributeOf(k) == IF k = "reason" THEN "booking_reason" ELSE k

\* The data_key an attribute is loaded from
DataKeyOf(a) == IF a = "booking_reason" THEN "reason" ELSE a

\* The fields with a load_default
LoadDefaults ==
    [repeat_interval |-> 0, booking_reason |-> "", is_prebooking |-> FALSE,
     link_back |-> FALSE, admin_override_enabled |-> FALSE, extra_fields |-> <<>>]

\* fields.List: the items that passed OneOf(WEEKDAYS)
ValidItems(weekdays) == SelectSeq(weekdays, LAMBDA x : x \in Range(WEEKDAYS))

\* The fields of the schema applied to the submitted dict: the loaded values
\* and the errors by data_key.  A field with an error is left out of the
\* values, but for a list with a wrong item, which is loaded as its valid items
\* if it has any.
CreateBookingSchema_deserialize(d) ==
    LET good == {k \in DOMAIN d : FieldErrorsOf(d, k) = {}}
        partial == {k \in DOMAIN d \ good :
                       k = "recurrence_weekdays" /\ ValidItems(d[k]) # <<>>}
        attrs == {AttributeOf(k) : k \in good \cup partial} \cup DOMAIN LoadDefaults
    IN  [data |->
            [a \in attrs |->
                IF DataKeyOf(a) \notin good \cup partial THEN LoadDefaults[a]
                ELSE IF a \in {"start_dt", "end_dt"}
                THEN TheValue(DateTime_deserialize(d[a]))
                ELSE IF a = "recurrence_weekdays" THEN Some(ValidItems(d[a]))
                ELSE d[DataKeyOf(a)]],
         errors |->
            [k \in {x \in SubmittedKeys : FieldErrorsOf(d, x) # {}} |-> FieldErrorsOf(d, k)]]

\* @validates('recurrence_weekdays')
CreateBookingSchema_check_weekdays_unique(weekdays) ==
    IF Len(weekdays) > 0 /\ Len(weekdays) # Cardinality(Range(weekdays))
    THEN {DuplicateWeekdays}
    ELSE {}

\* marshmallow runs a @validates method on a field that was loaded, and takes
\* the field out of the data when the method raises
InvokeFieldValidators(r) ==
    IF "recurrence_weekdays" \in DOMAIN r.data
          /\ CreateBookingSchema_check_weekdays_unique(
                 TheValue(r.data["recurrence_weekdays"])) # {}
    THEN [data |-> DelItem(r.data, "recurrence_weekdays"),
          errors |-> SetItem(r.errors, "recurrence_weekdays",
                             (IF "recurrence_weekdays" \in DOMAIN r.errors
                              THEN r.errors["recurrence_weekdays"]
                              ELSE {})
                               \cup CreateBookingSchema_check_weekdays_unique(
                                        TheValue(r.data["recurrence_weekdays"])))]
    ELSE r

\* Mutant: only a booking that ends before its start is refused
Mutant_validate_dts_strict(data) ==
    IF data["start_dt"] > data["end_dt"] THEN {EndBeforeStart} ELSE {}

CreateBookingSchema_validate_dts(data) ==
    IF data["start_dt"] >= data["end_dt"] THEN {EndBeforeStart} ELSE {}

\* Mutant: the submitted link_id counts even with a booking in the context
Mutant_check_booking_reason_submitted_link(data, c) ==
    LET has_link == "link_id" \in DOMAIN data
        empty == IF "booking_reason" \in DOMAIN data THEN data["booking_reason"] = "" ELSE TRUE
        validate ==
            IF c.booking_reason_required = "always" THEN TRUE
            ELSE IF c.booking_reason_required = "not_for_events" THEN ~has_link
            ELSE FALSE
    IN  IF validate /\ empty THEN {ReasonNotSpecified} ELSE {}

\* c.context_booking is self.context.get('booking'), c.booking_reason_required
\* is rb_settings.get('booking_reason_required')
CreateBookingSchema_check_booking_reason(data, c) ==
    LET has_link ==
            IF c.context_booking # None
            THEN Len(TheValue(c.context_booking).links) > 0
            ELSE "link_id" \in DOMAIN data
        empty == IF "booking_reason" \in DOMAIN data THEN data["booking_reason"] = "" ELSE TRUE
        validate ==
            IF c.booking_reason_required = "always" THEN TRUE
            ELSE IF c.booking_reason_required = "not_for_events" THEN ~has_link
            ELSE FALSE
    IN  IF validate /\ empty THEN {ReasonNotSpecified} ELSE {}

\* The @validates_schema methods are skipped when a field has an error; each
\* that runs stores its error, validate_dts under _schema
InvokeSchemaValidators(r, c) ==
    IF DOMAIN r.errors # {}
    THEN r
    ELSE LET reason == CreateBookingSchema_check_booking_reason(r.data, c)
             dts == CreateBookingSchema_validate_dts(r.data)
             e1 == IF reason # {} THEN SetItem(r.errors, "reason", reason) ELSE r.errors
         IN  [data |-> r.data,
              errors |-> IF dts # {} THEN SetItem(e1, "_schema", dts) ELSE e1]

\* Mutant: the weekdays are kept whatever the repetition
Mutant_weekdays_only_weekly_keeps(data) == data

\* @post_load
CreateBookingSchema_weekdays_only_weekly(data) ==
    IF data["repeat_frequency"] # "WEEK"
    THEN SetItem(data, "recurrence_weekdays", None)
    ELSE data

\* schema.load(d): the errors it raises, or the loaded data
CreateBookingSchema_load(d, c) ==
    LET r == InvokeSchemaValidators(InvokeFieldValidators(CreateBookingSchema_deserialize(d)), c)
    IN  IF DOMAIN r.errors # {}
        THEN [errors |-> r.errors, data |-> None]
        ELSE [errors |-> r.errors, data |-> Some(CreateBookingSchema_weekdays_only_weekly(r.data))]

\* The booking of the schema context, if any
ContextBookings ==
    {None} \cup {Some(b) : b \in {x \in StoredBookings :
                                   /\ x.repeat_frequency = "NEVER"
                                   /\ x.recurrence_weekdays = None
                                   /\ x.room.full_name = "28/1-026"}}

InitLoad ==
    /\ booking = DefaultBooking
    /\ call = [op |-> "init"]
    /\ raw = <<>>
    /\ out = <<>>
    /\ form = NoForm

\* CreateBookingSchema(context=...).load(request data)
LoadCreateBooking ==
    /\ call.op = "init"
    /\ \E o \in SubmittedValues, b \in ContextBookings,
          required \in BookingReasonRequiredOptions :
           LET c == [op |-> "CreateBookingSchema", context_booking |-> b,
                     booking_reason_required |-> required]
           IN  /\ call' = c
               /\ raw' = Submitted(o)
               /\ out' = CreateBookingSchema_load(Submitted(o), c)
               /\ UNCHANGED <<booking, form>>

NextLoad == LoadCreateBooking

SpecLoad == InitLoad /\ [][NextLoad]_vars

---------------------------------------------------------------------------
(* Properties of CreateBookingSchema *)

\* Every submitted field passes its own validation
FieldsPass ==
    /\ {"start_dt", "end_dt", "repeat_frequency", "room_id"} \subseteq DOMAIN raw
    /\ raw["start_dt"] \in Range(DateTimeTexts)
    /\ raw["end_dt"] \in Range(DateTimeTexts)
    /\ raw["repeat_frequency"] \in {"NEVER", "DAY", "WEEK", "MONTH"}
    /\ "recurrence_weekdays" \in DOMAIN raw =>
          /\ \A i \in DOMAIN raw["recurrence_weekdays"] :
                 raw["recurrence_weekdays"][i] \in Range(WEEKDAYS)
          /\ \A i, j \in DOMAIN raw["recurrence_weekdays"] :
                 raw["recurrence_weekdays"][i] = raw["recurrence_weekdays"][j] => i = j

\* Loading failed with the message among the errors of the key
FailsWith(key, message) ==
    /\ out.data = None
    /\ key \in DOMAIN out.errors
    /\ message \in out.errors[key]

HourOf(text) == CHOOSE h \in 9..10 : DateTimeTexts[h - 8] = text

\* C15: when every field passes its own validation, loading fails with
\* 'Booking cannot end before it starts' exactly when start_dt >= end_dt, so a
\* loaded booking has start_dt < end_dt and a booking of no length is
\* refused; with an error on a field the check does not run.
C15_EndAfterStart ==
    call.op = "CreateBookingSchema" =>
        /\ FieldsPass =>
              (FailsWith("_schema", "Booking cannot end before it starts")
                  <=> HourOf(raw["start_dt"]) >= HourOf(raw["end_dt"]))
        /\ out.data # None =>
              \A d \in out.data :
                  /\ d["start_dt"] < d["end_dt"]
                  /\ d["start_dt"] = HourOf(raw["start_dt"])
                  /\ d["end_dt"] = HourOf(raw["end_dt"])
        /\ ~FieldsPass =>
              /\ out.data = None
              /\ \A k \in DOMAIN out.errors :
                     "Booking cannot end before it starts" \notin out.errors[k]

\* A booking from 09:00 to 09:00
C15_Witness ==
    /\ call.op = "CreateBookingSchema"
    /\ FieldsPass
    /\ raw["start_dt"] = raw["end_dt"]
    /\ out.data = None
    /\ out.errors["_schema"] = {EndBeforeStart}

\* C16: a loaded booking that is not weekly has recurrence_weekdays = None
\* whatever was submitted; a loaded weekly booking has the submitted
\* recurrence_weekdays unchanged, all of them in WEEKDAYS and none twice; a
\* submission with a weekday twice is refused with 'Duplicate weekdays', weekly
\* or not.
C16_WeekdaysOnlyWeekly ==
    call.op = "CreateBookingSchema" =>
        /\ out.data # None =>
              \A d \in out.data :
                  /\ d["repeat_frequency"] = raw["repeat_frequency"]
                  /\ d["repeat_frequency"] # "WEEK" =>
                        /\ "recurrence_weekdays" \in DOMAIN d
                        /\ d["recurrence_weekdays"] = None
                  /\ (d["repeat_frequency"] = "WEEK" /\ "recurrence_weekdays" \in DOMAIN raw) =>
                        /\ d["recurrence_weekdays"] = Some(raw["recurrence_weekdays"])
                        /\ \A l \in d["recurrence_weekdays"] :
                               /\ \A i \in DOMAIN l : l[i] \in Range(WEEKDAYS)
                               /\ \A i, j \in DOMAIN l : l[i] = l[j] => i = j
        /\ ("recurrence_weekdays" \in DOMAIN raw
               /\ \E i, j \in DOMAIN raw["recurrence_weekdays"] :
                      /\ i # j
                      /\ raw["recurrence_weekdays"][i] = raw["recurrence_weekdays"][j]
                      /\ raw["recurrence_weekdays"][i] \in Range(WEEKDAYS))
              => FailsWith("recurrence_weekdays", "Duplicate weekdays")

\* A daily booking submitted with two weekdays
C16_Witness ==
    /\ call.op = "CreateBookingSchema"
    /\ raw["repeat_frequency"] = "DAY"
    /\ "recurrence_weekdays" \in DOMAIN raw
    /\ raw["recurrence_weekdays"] = <<"tue", "mon">>
    /\ out.data # None
    /\ \A d \in out.data : d["recurrence_weekdays"] = None

\* The reason is empty, and the setting asks for one
ReasonEmpty == "reason" \notin DOMAIN raw \/ raw["reason"] = ""

HasLink ==
    IF call.context_booking # None
    THEN \E b \in call.context_booking : Len(b.links) > 0
    ELSE "link_id" \in DOMAIN raw

ReasonRequired ==
    \/ call.booking_reason_required = "always"
    \/ call.booking_reason_required = "not_for_events" /\ ~HasLink

\* C17 as stated: loading fails with 'Booking reason not specified' on the
\* field reason exactly when the reason is empty and the setting asks for one.
C17_Original ==
    call.op = "CreateBookingSchema" =>
        (FailsWith("reason", "Booking reason not specified")
            <=> (ReasonEmpty /\ ReasonRequired))

\* C17: when every field passes its own validation, loading fails with
\* 'Booking reason not specified' on the field reason exactly when the reason
\* is empty (or left out) and the setting is 'always', or 'not_for_events' and
\* the booking has no link; with an error on a field the check does not run.
\* The links of a booking in the context decide whether there is a link, and
\* the submitted link_id only without such a booking.
C17_BookingReason ==
    call.op = "CreateBookingSchema" =>
        /\ FieldsPass =>
              (FailsWith("reason", "Booking reason not specified")
                  <=> (ReasonEmpty /\ ReasonRequired))
        /\ ~FieldsPass => "reason" \notin DOMAIN out.errors

\* A booking without links is in the context; the submitted link_id is ignored
C17_Witness ==
    /\ call.op = "CreateBookingSchema"
    /\ FieldsPass
    /\ call.booking_reason_required = "not_for_events"
    /\ call.context_booking # None
    /\ \A b \in call.context_booking : b.links = <<>>
    /\ "link_id" \in DOMAIN raw
    /\ "reason" \notin DOMAIN raw
    /\ out.data = None
    /\ out.errors["reason"] = {ReasonNotSpecified}

====
